---- MODULE Spec2Model ----
(***************************************************************************)
(* Model of the hybrid IR scenario (fuzzamoto-scenarios/bin/ir.rs) and of  *)
(* the template generators (fuzzamoto-ir/src/generators).                  *)
(*                                                                         *)
(* Sequences are 1-based here and 0-based in the source: At0(s, i) reads   *)
(* the source's s[i].                                                      *)
(***************************************************************************)
EXTENDS Integers, Sequences, FiniteSets, TLC

VARIABLES
    pc,          \* position of the harness / of IrScenario::run
    build,       \* the cfg!/#[cfg] features the binary was built with
    connections, \* self.inner.connections.len()
    bytes,       \* the raw input handed to TestCase::decode
    decoded,     \* the Result<TestCase, String> of TestCase::decode
    hybrid,      \* hybrid_actions of IrScenario::run
    ip,          \* 0-based index of the next entry of process_hybrid_actions
    trace,       \* calls made on the collaborators, in order
    swallowed,   \* TRUE once a `let _ =` call has returned an error
    dispatchFailed, \* TRUE once a send or send_and_ping has returned an error
    result,      \* the ScenarioResult of IrScenario::run
    builder,     \* ProgramBuilder: instructions, variables, context
    meta,        \* Option<&PerTestcaseMetadata>
    gres,        \* outcome of the last generator run
    gname,       \* name() of the generator run last
    gpre,        \* the builder before the last generator run
    gruns,       \* generator runs made so far
    chosen,      \* the Option<usize> of the last choose_index
    spc,         \* position of IrScenario::new / sync_nodes
    clock,       \* start.elapsed(), in whole seconds
    checkedAt,   \* start.elapsed() as the loop condition read it last
    polledAt,    \* start.elapsed() when get_tip_hash was called last
    primary_tip, \* primary_tip of sync_nodes
    reference_tip, \* reference_tip of sync_nodes
    synced,      \* synced of sync_nodes
    matched,     \* TRUE once the two tips of one iteration matched
    failedStep,  \* the call of IrScenario::new that returned an error
    sres,        \* the Result of sync_nodes
    constructed  \* the Result of IrScenario::new

vars == <<pc, build, connections, bytes, decoded, hybrid, ip, trace, swallowed,
          dispatchFailed, result, builder, meta, gres, gname, gpre, gruns,
          chosen, spc, clock, checkedAt, polledAt, primary_tip, reference_tip,
          synced, matched, failedStep, sres, constructed>>

schedVars == <<pc, build, connections, bytes, decoded, hybrid, ip, trace,
               swallowed, dispatchFailed, result>>

genVars == <<builder, meta, gres, gname, gpre, gruns, chosen>>

syncVars == <<spc, clock, checkedAt, polledAt, primary_tip, reference_tip,
              synced, matched, failedStep, sres, constructed>>

----------------------------------------------------------------------------
(* Bounds of the model *)

\* longest program drawn as input (instructions / actions)
MaxLen == 2

\* longest list of insertion points drawn freely
MaxPoints == 2

----------------------------------------------------------------------------
(* Helpers *)

At0(s, i) == s[i + 1]

Min(a, b) == IF a < b THEN a ELSE b

Range(s) == {s[i] : i \in 1..Len(s)}

\* all sequences over S of length at most n
SeqUpTo(S, n) == UNION {[1..k -> S] : k \in 0..n}

\* number of positions of s holding x
Count(s, x) == Cardinality({i \in 1..Len(s) : s[i] = x})

----------------------------------------------------------------------------
(* CompiledAction and its wire form                                        *)

SendRawMessage(from) == [op |-> "SendRawMessage", arg |-> from]

SetTime(time) == [op |-> "SetTime", arg |-> time]

\* any other CompiledAction variant (the `_ => {}` arm)
OtherAction == [op |-> "Other", arg |-> 0]

\* variant index of an action in the serialized form
TagOf(a) == CASE a.op = "SendRawMessage" -> 0
              [] a.op = "SetTime" -> 1
              [] OTHER -> 2

\* serialized form: length prefix, then (variant index, operand) per element
RECURSIVE EncodeActions(_)
EncodeActions(as) ==
    IF as = <<>> THEN <<>>
    ELSE <<TagOf(Head(as)), Head(as).arg>> \o EncodeActions(Tail(as))

Encode(as) == <<Len(as)>> \o EncodeActions(as)

ActionOfTag(tag, arg) ==
    CASE tag = 0 -> SendRawMessage(arg)
      [] tag = 1 -> SetTime(arg)
      [] OTHER -> OtherAction

\* reads n elements from pb starting at 0-based offset off
RECURSIVE ReadActions(_, _, _)
ReadActions(pb, off, n) ==
    IF n = 0 THEN [ok |-> TRUE, actions |-> <<>>]
    ELSE IF off + 1 >= Len(pb) THEN [ok |-> FALSE, actions |-> <<>>]
    ELSE IF At0(pb, off) > 2 THEN [ok |-> FALSE, actions |-> <<>>]
    ELSE LET rest == ReadActions(pb, off + 2, n - 1)
         IN  IF rest.ok
             THEN [ok |-> TRUE,
                   actions |-> <<ActionOfTag(At0(pb, off), At0(pb, off + 1))>>
                               \o rest.actions]
             ELSE rest

\* postcard::from_bytes: fails on an unexpected end or an unknown variant;
\* bytes after the value are ignored
from_bytes(pb) ==
    IF pb = <<>> THEN [ok |-> FALSE, actions |-> <<>>]
    ELSE ReadActions(pb, 1, At0(pb, 0))

\* Compiler::compile on a deserialized Program: an instruction that constructs
\* data binds a variable and emits no action, a send resolves its connection
\* operand against the variables bound so far, and one unresolvable reference
\* fails the whole compilation
RECURSIVE CompileFrom(_, _)
CompileFrom(instrs, bound) ==
    IF instrs = <<>> THEN [ok |-> TRUE, actions |-> <<>>]
    ELSE LET i == Head(instrs)
         IN  IF i.op = "Other" THEN CompileFrom(Tail(instrs), bound + 1)
             ELSE IF i.op = "SendRawMessage" /\ i.arg >= bound
             THEN [ok |-> FALSE, actions |-> <<>>]
             ELSE LET rest == CompileFrom(Tail(instrs), bound)
                  IN  IF rest.ok
                      THEN [ok |-> TRUE, actions |-> <<i>> \o rest.actions]
                      ELSE rest

compile(instrs) == CompileFrom(instrs, 0)

----------------------------------------------------------------------------
(* TestCase::decode                                                        *)

NoTestCase == [program |-> <<>>, rpc_call_points |-> <<>>]

Err(e) == [ok |-> FALSE, err |-> e, testcase |-> NoTestCase]

Ok(program, points) ==
    [ok |-> TRUE, err |-> "",
     testcase |-> [program |-> program, rpc_call_points |-> points]]

num_rpc_calls(b) == At0(b, 0) % 10

\* the loop reading the point of call i at index i, the count byte included
RECURSIVE ReadPoints_FromCount(_, _, _)
ReadPoints_FromCount(b, i, n) ==
    IF i >= n THEN <<>>
    ELSE (IF i + 1 < Len(b) THEN <<At0(b, i)>> ELSE <<>>)
         \o ReadPoints_FromCount(b, i + 1, n)

\* the loop `for i in 0..num_rpc_calls`, from index i on
RECURSIVE ReadPoints(_, _, _)
ReadPoints(b, i, n) ==
    IF i >= n THEN <<>>
    ELSE (IF i + 1 < Len(b) THEN <<At0(b, i + 1)>> ELSE <<>>)
         \o ReadPoints(b, i + 1, n)

\* the program taken to start one byte early, at the last point
program_bytes_OneEarly(b) ==
    SubSeq(b, Min(num_rpc_calls(b), Len(b)) + 1, Len(b))

program_bytes(b) ==
    SubSeq(b, Min(num_rpc_calls(b) + 1, Len(b)) + 1, Len(b))

\* decode keeping the points read when the program does not deserialize
decode_KeepsPoints(b, compile_in_vm) ==
    IF b = <<>> THEN Err("Empty input")
    ELSE LET points == ReadPoints(b, 0, num_rpc_calls(b))
             de == from_bytes(program_bytes(b))
         IN  IF ~de.ok THEN Ok(<<>>, points)
             ELSE IF compile_in_vm
             THEN LET co == compile(de.actions)
                  IN  IF co.ok THEN Ok(co.actions, points) ELSE Err("compile")
             ELSE Ok(de.actions, points)

decode(b, compile_in_vm) ==
    IF b = <<>> THEN Err("Empty input")
    ELSE LET points == ReadPoints(b, 0, num_rpc_calls(b))
             de == from_bytes(program_bytes(b))
         IN  IF ~de.ok THEN Err("deserialize")
             ELSE IF compile_in_vm
             THEN LET co == compile(de.actions)
                  IN  IF co.ok THEN Ok(co.actions, points) ELSE Err("compile")
             ELSE Ok(de.actions, points)

----------------------------------------------------------------------------
(* IrScenario::build_hybrid_actions                                        *)

P2P(action) == [kind |-> "P2P", action |-> action, at |-> 0]

\* `at` is a label the source does not carry: the action index or the call
\* point the call was pushed for
RpcGetMempoolInfo(at) == [kind |-> "RpcGetMempoolInfo", action |-> OtherAction, at |-> at]

IsRpc(h) == h.kind = "RpcGetMempoolInfo"

\* the first loop pushing the call in place of the action
RECURSIVE Interleave_DropsAction(_, _, _)
Interleave_DropsAction(actions, points, idx) ==
    IF idx >= Len(actions) THEN <<>>
    ELSE (IF idx \in Range(points) THEN <<RpcGetMempoolInfo(idx)>>
          ELSE <<P2P(At0(actions, idx))>>)
         \o Interleave_DropsAction(actions, points, idx + 1)

\* the first loop, from action index idx on
RECURSIVE Interleave(_, _, _)
Interleave(actions, points, idx) ==
    IF idx >= Len(actions) THEN <<>>
    ELSE (IF idx \in Range(points) THEN <<RpcGetMempoolInfo(idx)>> ELSE <<>>)
         \o <<P2P(At0(actions, idx))>>
         \o Interleave(actions, points, idx + 1)

\* the second loop keeping only the points strictly beyond the length
RECURSIVE Trailing_Strict(_, _)
Trailing_Strict(points, total_actions) ==
    IF points = <<>> THEN <<>>
    ELSE (IF Head(points) > total_actions
          THEN <<RpcGetMempoolInfo(Head(points))>> ELSE <<>>)
         \o Trailing_Strict(Tail(points), total_actions)

\* the second loop pushing a call for every point
RECURSIVE Trailing_All(_, _)
Trailing_All(points, total_actions) ==
    IF points = <<>> THEN <<>>
    ELSE <<RpcGetMempoolInfo(Head(points))>>
         \o Trailing_All(Tail(points), total_actions)

\* the second loop, over the call points in their order
RECURSIVE Trailing(_, _)
Trailing(points, total_actions) ==
    IF points = <<>> THEN <<>>
    ELSE (IF Head(points) >= total_actions
          THEN <<RpcGetMempoolInfo(Head(points))>> ELSE <<>>)
         \o Trailing(Tail(points), total_actions)

build_hybrid_actions(testcase) ==
    Interleave(testcase.program, testcase.rpc_call_points, 0)
    \o Trailing(testcase.rpc_call_points, Len(testcase.program))

----------------------------------------------------------------------------
(* IrScenario::process_hybrid_actions, ping_connections, evaluate_oracles  *)

Call(call, target, n) == [call |-> call, target |-> target, n |-> n]

\* #[cfg(any(feature = "oracle_netsplit", feature = "oracle_consensus"))]
HasSecond(b) == b.oracle_netsplit \/ b.oracle_consensus

\* the calls one entry makes, a send to an index out of range dropped
CallsOf_NoWrap(h, b, num_connections) ==
    CASE h.kind = "P2P" /\ h.action.op = "SendRawMessage" ->
            IF h.action.arg >= num_connections THEN <<>>
            ELSE <<Call(IF b.force_send_and_ping THEN "send_and_ping" ELSE "send",
                        "connection", h.action.arg)>>
      [] h.kind = "P2P" /\ h.action.op = "SetTime" ->
            <<Call("set_mocktime", "primary", h.action.arg)>>
            \o (IF HasSecond(b)
                THEN <<Call("set_mocktime", "second", h.action.arg)>> ELSE <<>>)
      [] h.kind = "RpcGetMempoolInfo" ->
            <<Call("call_rpc", "primary", 0)>>
      [] OTHER -> <<>>

\* the calls one entry makes, the time set on the primary target only
CallsOf_PrimaryOnly(h, b, num_connections) ==
    CASE h.kind = "P2P" /\ h.action.op = "SendRawMessage" ->
            IF num_connections = 0 THEN <<>>
            ELSE <<Call(IF b.force_send_and_ping THEN "send_and_ping" ELSE "send",
                        "connection", h.action.arg % num_connections)>>
      [] h.kind = "P2P" /\ h.action.op = "SetTime" ->
            <<Call("set_mocktime", "primary", h.action.arg)>>
      [] h.kind = "RpcGetMempoolInfo" ->
            <<Call("call_rpc", "primary", 0)>>
      [] OTHER -> <<>>

\* the calls one entry of the merged sequence makes, num_connections live
\* connections given
CallsOf(h, b, num_connections) ==
    CASE h.kind = "P2P" /\ h.action.op = "SendRawMessage" ->
            IF num_connections = 0 THEN <<>>
            ELSE <<Call(IF b.force_send_and_ping THEN "send_and_ping" ELSE "send",
                        "connection", h.action.arg % num_connections)>>
      [] h.kind = "P2P" /\ h.action.op = "SetTime" ->
            <<Call("set_mocktime", "primary", h.action.arg)>>
            \o (IF HasSecond(b)
                THEN <<Call("set_mocktime", "second", h.action.arg)>> ELSE <<>>)
      [] h.kind = "RpcGetMempoolInfo" ->
            <<Call("call_rpc", "primary", 0)>>
      [] OTHER -> <<>>

\* the calls are those of a send on a connection
IsDispatch(calls) ==
    calls # <<>> /\ calls[1].call \in {"send", "send_and_ping"}

\* the loop of ping_connections starting after connection c
RECURSIVE PingCalls_SkipFirst(_, _)
PingCalls_SkipFirst(c, num_connections) ==
    IF c + 1 >= num_connections THEN <<>>
    ELSE <<Call("ping", "connection", c + 1)>>
         \o PingCalls_SkipFirst(c + 1, num_connections)

\* the loop of ping_connections, from connection c on
RECURSIVE PingCalls(_, _)
PingCalls(c, num_connections) ==
    IF c >= num_connections THEN <<>>
    ELSE <<Call("ping", "connection", c)>> \o PingCalls(c + 1, num_connections)

OkResult == [kind |-> "Ok", msg |-> ""]

Fail(msg) == [kind |-> "Fail", msg |-> msg]

NoResult == [kind |-> "None", msg |-> ""]

Oracles == {"crash", "netsplit", "consensus"}

Flag(b) == IF b THEN 1 ELSE 0

\* evaluate_oracles going on after a failure and reporting the last one
evaluate_oracles_NoShortCircuit(b, fails, connected) ==
    LET enabled == [o \in Oracles |->
                      CASE o = "crash" -> TRUE
                        [] o = "netsplit" -> b.oracle_netsplit
                        [] OTHER -> b.oracle_consensus]
        calls == (<<Call("evaluate", "crash", Flag(fails["crash"]))>>)
                 \o (IF enabled["netsplit"]
                     THEN <<Call("evaluate", "netsplit", Flag(fails["netsplit"]))>>
                     ELSE <<>>)
                 \o (IF enabled["consensus"]
                     THEN <<Call("evaluate", "consensus", Flag(fails["consensus"]))>>
                     ELSE <<>>)
    IN  [calls |-> calls,
         result |-> IF enabled["consensus"] /\ fails["consensus"] THEN Fail("consensus")
                    ELSE IF enabled["netsplit"] /\ fails["netsplit"] THEN Fail("netsplit")
                    ELSE IF fails["crash"] THEN Fail("crash")
                    ELSE OkResult]

\* evaluate_oracles; fails[o] says whether oracle o reports Fail (recorded
\* with the call), and connected is the answer of second.is_connected_to
evaluate_oracles(b, fails, connected) ==
    LET crash == <<Call("evaluate", "crash", Flag(fails["crash"]))>>
        netsplit == IF b.oracle_netsplit
                    THEN <<Call("evaluate", "netsplit", Flag(fails["netsplit"]))>>
                    ELSE <<>>
        consensus == IF b.oracle_consensus
                     THEN (IF connected THEN <<>>
                           ELSE <<Call("connect_to", "second", 0)>>)
                          \o <<Call("evaluate", "consensus", Flag(fails["consensus"]))>>
                     ELSE <<>>
    IN  IF fails["crash"]
        THEN [calls |-> crash, result |-> Fail("crash")]
        ELSE IF b.oracle_netsplit /\ fails["netsplit"]
        THEN [calls |-> crash \o netsplit, result |-> Fail("netsplit")]
        ELSE IF b.oracle_consensus /\ fails["consensus"]
        THEN [calls |-> crash \o netsplit \o consensus, result |-> Fail("consensus")]
        ELSE [calls |-> crash \o netsplit \o consensus, result |-> OkResult]

----------------------------------------------------------------------------
(* Inputs                                                                  *)

ActionSet == {SendRawMessage(3), SetTime(7), OtherAction}

\* the program of the end-to-end example of section 8
E2EProgram == <<SetTime(7), SendRawMessage(3), OtherAction, SetTime(7)>>

\* sends from connection indices in and out of range
WrapProgram == <<SendRawMessage(0), SendRawMessage(1), SendRawMessage(255)>>

\* the clock set to two different times
TimeProgram == <<SetTime(7), SendRawMessage(3), SetTime(9)>>

Programs == SeqUpTo(ActionSet, MaxLen) \cup {E2EProgram, WrapProgram, TimeProgram}

PointBytes == {0, 1, 100}

PointLists ==
    SeqUpTo(PointBytes, MaxPoints)
    \cup {<<0, L, L + 5>> : L \in 0..MaxLen}
    \cup {<<5, 100>>}

\* as many points as one count byte can announce
NinePoints == <<0, 0, 1, 100, 100, 2, 5, 100, 1>>

\* count byte and points; short lists also with a count byte above 9
Headers ==
    {<<Len(pl)>> \o pl : pl \in PointLists}
    \cup {<<Len(pl) + 10>> \o pl : pl \in SeqUpTo(PointBytes, 1)}
    \cup {<<9>> \o NinePoints, <<19>> \o NinePoints}

\* serialized programs, and segments that do not deserialize
Segments ==
    {Encode(p) : p \in Programs} \cup {<<>>, <<1>>, <<1, 0>>, <<1, 9, 0>>}

\* buffers that end before the points the count byte announces
ShortBuffers ==
    {<<n>> \o pl : n \in 1..3, pl \in SeqUpTo(PointBytes, 1)}

Inputs == {h \o s : h \in Headers, s \in Segments} \cup ShortBuffers \cup {<<>>}

Feature(netsplit, consensus, civ, fsp) ==
    [oracle_netsplit |-> netsplit, oracle_consensus |-> consensus,
     compile_in_vm |-> civ, force_send_and_ping |-> fsp]

\* the feature sets the binary is built with: every choice of oracles, and
\* each of the two other features switched on once
Builds ==
    {Feature(n, c, FALSE, FALSE) : n \in BOOLEAN, c \in BOOLEAN}
    \cup {Feature(FALSE, FALSE, TRUE, FALSE), Feature(TRUE, TRUE, FALSE, TRUE)}

ConnectionCounts == {0, 1, 2}

----------------------------------------------------------------------------
(* ProgramBuilder                                                          *)

\* longest program the generators start from
MaxSeed == 2

\* longest template-request list of the metadata
MaxEvents == 2

\* generator runs on one builder
MaxRuns == 2

Instruction(operation, inputs) == [operation |-> operation, inputs |-> inputs]

\* kind of the variable an operation produces, "None" if it produces none
OutputKind(operation) ==
    CASE operation = "LoadConnection" -> "Connection"
      [] operation = "LoadBytes" -> "Bytes"
      [] operation = "BuildTemplate" -> "Template"
      [] OTHER -> "None"

\* kinds of the inputs an operation takes; "Any" where the source does not
\* tell the kind
InputKinds(operation) ==
    CASE operation = "SendGetTemplate" -> <<"Connection">>
      [] operation = "BuildTemplate" -> <<"Any">>
      [] operation = "SendTemplate" -> <<"Connection", "Any">>
      [] OTHER -> <<>>

\* validation without the check of the inputs
WellTyped_ArityOnly(b, instr) ==
    /\ Len(instr.inputs) = Len(InputKinds(instr.operation))
    /\ instr.operation = "LoadConnection" => b.num_connections > 0

\* the validation of append: arity, every input an existing variable of the
\* required kind, and a connection only in a context that has one
WellTyped(b, instr) ==
    /\ Len(instr.inputs) = Len(InputKinds(instr.operation))
    /\ \A k \in 1..Len(instr.inputs) :
          /\ instr.inputs[k] < Len(b.variables)
          /\ \/ InputKinds(instr.operation)[k] = "Any"
             \/ At0(b.variables, instr.inputs[k]).kind = InputKinds(instr.operation)[k]
    /\ instr.operation = "LoadConnection" => b.num_connections > 0

\* Builder::append: the instruction and its output variable are added, or
\* nothing changes
append(b, instr) ==
    IF WellTyped(b, instr)
    THEN [ok |-> TRUE,
          builder |->
            [b EXCEPT
               !.instructions = Append(@, instr),
               !.variables =
                  IF OutputKind(instr.operation) = "None" THEN @
                  ELSE Append(@, [kind |-> OutputKind(instr.operation),
                                  by |-> Len(b.instructions)])]]
    ELSE [ok |-> FALSE, builder |-> b]

force_append(b, inputs, operation) == append(b, Instruction(operation, inputs))

ConnectionVariables(b) ==
    {v \in 0..(Len(b.variables) - 1) : At0(b.variables, v).kind = "Connection"}

\* get_or_create_random_connection: the outcomes over the random choice;
\* each is the builder afterwards and the index of the variable returned
get_or_create_random_connection(b) ==
    IF ConnectionVariables(b) # {}
    THEN {[builder |-> b, index |-> v] : v \in ConnectionVariables(b)}
    ELSE {[builder |-> append(b, Instruction("LoadConnection", <<>>)).builder,
           index |-> Len(b.variables)]}

----------------------------------------------------------------------------
(* The generators                                                          *)

Outcome(res, b) == [res |-> res, builder |-> b]

\* generate without the guard on the context
GetTemplate_NoGuard(b) ==
    {LET r == force_append(oc.builder, <<oc.index>>, "SendGetTemplate")
     IN  Outcome(IF r.ok THEN "Ok" ELSE "Panic", r.builder) :
        oc \in get_or_create_random_connection(b)}

\* GetTemplateGenerator::generate: the outcomes over the random choice
GetTemplateGenerator_generate(b) ==
    IF b.num_connections = 0 THEN {Outcome("InvalidContext", b)}
    ELSE {LET r == force_append(oc.builder, <<oc.index>>, "SendGetTemplate")
          IN  Outcome(IF r.ok THEN "Ok" ELSE "Panic", r.builder) :
             oc \in get_or_create_random_connection(b)}

\* the values of mut_block_txn.index and block_txn.index, which the source
\* uses without binding them: any index, one past the variables included
UnboundIndices(b) == 0..Len(b.variables)

\* 1-based positions of the requests triggered by instruction k
Matches(req, k) ==
    {c \in 1..Len(req) : req[c].triggering_instruction_index = k}

\* the smallest element of a non-empty set of numbers: Iterator::position
First(S) == CHOOSE c \in S : \A d \in S : c <= d

\* the two appends of generate, for the request template_req[choice]
BuildAndSend(b, request) ==
    UNION {LET r1 == append(b, Instruction("BuildTemplate", <<x>>))
           IN  IF ~r1.ok THEN {Outcome("Panic", b)}
               ELSE {LET r2 == append(r1.builder,
                                      Instruction("SendTemplate",
                                                  <<request.connection_index, y>>))
                     IN  Outcome(IF r2.ok THEN "Ok" ELSE "Panic", r2.builder) :
                        y \in UnboundIndices(r1.builder)} :
             x \in UnboundIndices(b)}

\* generate matching the request against the insertion point itself
Template_OffByOne(b, m) ==
    IF ~(m.some /\ m.template_request # <<>>) THEN {Outcome("Ok", b)}
    ELSE LET insertion_point == Len(b.instructions)
             req == m.template_request
         IN  IF insertion_point = 0 THEN {Outcome("Panic", b)}
             ELSE IF At0(b.instructions, insertion_point - 1).operation
                       # "SendGetTemplate"
             THEN {Outcome("Panic", b)}
             ELSE IF Matches(req, insertion_point) = {} THEN {Outcome("Panic", b)}
             ELSE BuildAndSend(b, req[First(Matches(req, insertion_point))])

\* generate doing nothing, successfully, when no request matches
Template_NoMatchOk(b, m) ==
    IF ~(m.some /\ m.template_request # <<>>) THEN {Outcome("Ok", b)}
    ELSE LET insertion_point == Len(b.instructions)
             req == m.template_request
         IN  IF Matches(req, insertion_point - 1) = {} THEN {Outcome("Ok", b)}
             ELSE IF At0(b.instructions, insertion_point - 1).operation
                       # "SendGetTemplate"
             THEN {Outcome("Panic", b)}
             ELSE BuildAndSend(b, req[First(Matches(req, insertion_point - 1))])

\* generate without the assertion on the preceding instruction
Template_NoAssert(b, m) ==
    IF ~(m.some /\ m.template_request # <<>>) THEN {Outcome("Ok", b)}
    ELSE LET insertion_point == Len(b.instructions)
             req == m.template_request
         IN  IF Matches(req, insertion_point - 1) = {} THEN {Outcome("Panic", b)}
             ELSE BuildAndSend(b, req[First(Matches(req, insertion_point - 1))])

\* TemplateGenerator::generate: the outcomes over the unbound values. With no
\* instruction, insertion_point - 1 overflows or names no instruction: both
\* panic
TemplateGenerator_generate(b, m) ==
    IF ~(m.some /\ m.template_request # <<>>) THEN {Outcome("Ok", b)}
    ELSE LET insertion_point == Len(b.instructions)
             req == m.template_request
         IN  IF insertion_point = 0 THEN {Outcome("Panic", b)}
             ELSE IF At0(b.instructions, insertion_point - 1).operation
                       # "SendGetTemplate"
             THEN {Outcome("Panic", b)}
             ELSE IF Matches(req, insertion_point - 1) = {}
             THEN {Outcome("Panic", b)}
             ELSE BuildAndSend(b, req[First(Matches(req, insertion_point - 1))])

None == [some |-> FALSE, index |-> 0]

Some(index) == [some |-> TRUE, index |-> index]

\* Program::get_random_instruction_index: any insertion position of the
\* program, the end included
get_random_instruction_index(program) == {Some(i) : i \in 0..Len(program)}

\* TemplateGenerator::choose_index: the outcomes over the random choice
choose_index(program, m) ==
    IF m.some /\ m.block_txn_request # <<>>
    THEN LET blocktxn_req == m.block_txn_request
         IN  {Some(blocktxn_req[choice].triggering_instruction_index + 1) :
                 choice \in 1..Len(blocktxn_req)}
    ELSE get_random_instruction_index(program)

----------------------------------------------------------------------------
(* Inputs of the generators                                                *)

EmptyBuilder(n) == [instructions |-> <<>>, variables |-> <<>>, num_connections |-> n]

\* the instruction a seed step appends: its inputs are the first variables of
\* the kinds it takes
SeedInstruction(b, operation) ==
    Instruction(operation,
                IF operation = "SendGetTemplate" /\ ConnectionVariables(b) # {}
                THEN <<First(ConnectionVariables(b))>> ELSE <<>>)

\* the builder after the seed steps ops, each appended if it is well typed
RECURSIVE Seeded(_, _)
Seeded(b, ops) ==
    IF ops = <<>> THEN b
    ELSE Seeded(append(b, SeedInstruction(b, Head(ops))).builder, Tail(ops))

SeedOperations == {"LoadConnection", "LoadBytes", "SendGetTemplate"}

ContextConnections == {0, 2}

\* well-typed programs the generators start from
InitialBuilders ==
    {Seeded(EmptyBuilder(n), ops) :
        n \in ContextConnections, ops \in SeqUpTo(SeedOperations, MaxSeed)}

Requests ==
    [triggering_instruction_index : {1, 2}, connection_index : {0, 1, 2}]

\* block-transaction requests; choose_index reads the triggering index only
BlockTxnRequests == [triggering_instruction_index : {0, 3}]

MaxBlockTxn == 1

NoMeta == [some |-> FALSE, template_request |-> <<>>, block_txn_request |-> <<>>]

Metas ==
    {NoMeta}
    \cup {[some |-> TRUE, template_request |-> req, block_txn_request |-> btr] :
            req \in SeqUpTo(Requests, MaxEvents),
            btr \in SeqUpTo(BlockTxnRequests, MaxBlockTxn)}

----------------------------------------------------------------------------
(* Construction of the scenario: the second target                         *)

\* Duration::from_secs(10); POLL_INTERVAL, 10 ms, is less than one unit of
\* the clock
SYNC_TIMEOUT == 10

\* the clock stops here
MaxClock == 12

NoTip == "None"

\* the values of get_tip_hash: no tip, or the hash of a block
Tips == {NoTip, "a", "b"}

Pending == [kind |-> "Pending", err |-> ""]

Success == [kind |-> "Ok", err |-> ""]

Failure(e) == [kind |-> "Err", err |-> e]

SyncIdle ==
    /\ spc = "idle"
    /\ clock = 0
    /\ checkedAt = 0
    /\ polledAt = 0
    /\ primary_tip = NoTip
    /\ reference_tip = NoTip
    /\ synced = FALSE
    /\ matched = FALSE
    /\ failedStep = "none"
    /\ sres = Pending
    /\ constructed = Pending

----------------------------------------------------------------------------
(* The generators are idle while the scenario runs, and conversely         *)

GenIdle ==
    /\ builder = EmptyBuilder(0)
    /\ meta = NoMeta
    /\ gres = "None"
    /\ gname = "None"
    /\ gpre = EmptyBuilder(0)
    /\ gruns = 0
    /\ chosen = None

SchedIdle ==
    /\ pc = "idle"
    /\ build = Feature(FALSE, FALSE, FALSE, FALSE)
    /\ connections = 0
    /\ bytes = <<>>
    /\ decoded = Err("")
    /\ hybrid = <<>>
    /\ ip = 0
    /\ trace = <<>>
    /\ swallowed = FALSE
    /\ dispatchFailed = FALSE
    /\ result = NoResult

----------------------------------------------------------------------------
(* The scenario: one input decoded and run                                 *)

Init ==
    /\ pc = "decode"
    /\ build \in Builds
    /\ connections \in ConnectionCounts
    /\ bytes \in Inputs
    /\ decoded = Err("")
    /\ hybrid = <<>>
    /\ ip = 0
    /\ trace = <<>>
    /\ swallowed = FALSE
    /\ dispatchFailed = FALSE
    /\ result = NoResult
    /\ GenIdle
    /\ SyncIdle

\* the harness decodes the input and runs the scenario on a decoded TestCase
\* only
Decode ==
    /\ pc = "decode"
    /\ decoded' = decode(bytes, build.compile_in_vm)
    /\ pc' = IF decoded'.ok THEN "run" ELSE "rejected"
    /\ UNCHANGED <<build, connections, bytes, hybrid, ip, trace, swallowed,
                   dispatchFailed, result>>
    /\ UNCHANGED <<genVars, syncVars>>

\* run: let hybrid_actions = self.build_hybrid_actions(&testcase)
BuildHybrid ==
    /\ pc = "run"
    /\ hybrid' = build_hybrid_actions(decoded.testcase)
    /\ pc' = "process"
    /\ UNCHANGED <<build, connections, bytes, decoded, ip, trace, swallowed,
                   dispatchFailed, result>>
    /\ UNCHANGED <<genVars, syncVars>>

\* one iteration of the loop of process_hybrid_actions; every call's result
\* is dropped by `let _ =`
\* the loop giving up at the first call that returns an error
ProcessAction_AbortOnError ==
    /\ pc = "process"
    /\ ip < Len(hybrid)
    /\ LET calls == CallsOf(At0(hybrid, ip), build, connections)
       IN  /\ trace' = trace \o calls
           /\ \E failed \in BOOLEAN :
                /\ swallowed' = (swallowed \/ (failed /\ calls # <<>>))
                /\ dispatchFailed' =
                      (dispatchFailed \/ (failed /\ IsDispatch(calls)))
                /\ pc' = IF failed /\ calls # <<>> THEN "done" ELSE pc
                /\ result' = IF failed /\ calls # <<>> THEN Fail("dispatch")
                              ELSE result
    /\ ip' = ip + 1
    /\ UNCHANGED <<build, connections, bytes, decoded, hybrid>>
    /\ UNCHANGED <<genVars, syncVars>>

\* the loop never getting past an entry that makes no call
ProcessAction_Stuck ==
    /\ pc = "process"
    /\ ip < Len(hybrid)
    /\ LET calls == CallsOf(At0(hybrid, ip), build, connections)
       IN  /\ trace' = trace \o calls
           /\ \E failed \in BOOLEAN :
                /\ swallowed' = (swallowed \/ (failed /\ calls # <<>>))
                /\ dispatchFailed' =
                      (dispatchFailed \/ (failed /\ IsDispatch(calls)))
           /\ ip' = IF calls = <<>> THEN ip ELSE ip + 1
    /\ UNCHANGED <<pc, build, connections, bytes, decoded, hybrid, result>>
    /\ UNCHANGED <<genVars, syncVars>>

ProcessAction ==
    /\ pc = "process"
    /\ ip < Len(hybrid)
    /\ LET calls == CallsOf(At0(hybrid, ip), build, connections)
       IN  /\ trace' = trace \o calls
           /\ \E failed \in BOOLEAN :
                /\ swallowed' = (swallowed \/ (failed /\ calls # <<>>))
                /\ dispatchFailed' =
                      (dispatchFailed \/ (failed /\ IsDispatch(calls)))
    /\ ip' = ip + 1
    /\ UNCHANGED <<pc, build, connections, bytes, decoded, hybrid, result>>
    /\ UNCHANGED <<genVars, syncVars>>

\* run: self.ping_connections()
PingConnections ==
    /\ pc = "process"
    /\ ip >= Len(hybrid)
    /\ trace' = trace \o PingCalls(0, connections)
    /\ \E failed \in BOOLEAN :
         swallowed' = (swallowed \/ (failed /\ connections > 0))
    /\ pc' = "oracles"
    /\ UNCHANGED <<build, connections, bytes, decoded, hybrid, ip, dispatchFailed,
                   result>>
    /\ UNCHANGED <<genVars, syncVars>>

\* run: self.evaluate_oracles()
EvaluateOracles ==
    /\ pc = "oracles"
    /\ \E fails \in [Oracles -> BOOLEAN], connected \in BOOLEAN :
         LET ev == evaluate_oracles(build, fails, connected)
         IN  /\ trace' = trace \o ev.calls
             /\ result' = ev.result
    /\ pc' = "done"
    /\ UNCHANGED <<build, connections, bytes, decoded, hybrid, ip, swallowed,
                   dispatchFailed>>
    /\ UNCHANGED <<genVars, syncVars>>

Next ==
    \/ Decode
    \/ BuildHybrid
    \/ ProcessAction
    \/ PingConnections
    \/ EvaluateOracles

Spec == Init /\ [][Next]_vars

----------------------------------------------------------------------------
(* Properties of decoding and merging                                      *)

\* run has built the merged sequence
Built == pc \in {"process", "oracles", "done"}

Program == decoded.testcase.program

CallPoints == decoded.testcase.rpc_call_points

RpcPositions(h) == {j \in 1..Len(h) : IsRpc(h[j])}

P2PPositions(h) == {j \in 1..Len(h) : ~IsRpc(h[j])}

\* where compiled action i (0-based) stands in h
PosOfAction(h, i) ==
    CHOOSE j \in P2PPositions(h) :
        Cardinality({k \in P2PPositions(h) : k < j}) = i

\* the calls standing between action i-1 and action i
CallsBefore(h, i) ==
    {j \in RpcPositions(h) :
        /\ j < PosOfAction(h, i)
        /\ \A k \in P2PPositions(h) : k < PosOfAction(h, i) => k < j}

\* the calls standing after the last action
TrailingCalls(h) == {j \in RpcPositions(h) : \A k \in P2PPositions(h) : k < j}

\* the labels of the last n entries of h, in order
LastLabels(h, n) == [k \in 1..n |-> h[Len(h) - n + k].at]

\* the compiled actions of h, in order
RECURSIVE ActionsOf(_)
ActionsOf(h) ==
    IF h = <<>> THEN <<>>
    ELSE (IF IsRpc(Head(h)) THEN <<>> ELSE <<Head(h).action>>) \o ActionsOf(Tail(h))

\* C1 as stated: for every compiled program of length L and rpc_call_points =
\* [0, L, L+5] the merged sequence holds exactly 3 calls, one immediately
\* before action 0 and two trailing ones in the order of their points
C1_Original ==
    (Built /\ CallPoints = <<0, Len(Program), Len(Program) + 5>>) =>
        /\ Cardinality(RpcPositions(hybrid)) = 3
        /\ Len(Program) > 0
        /\ Cardinality(CallsBefore(hybrid, 0)) = 1
        /\ Cardinality(TrailingCalls(hybrid)) = 2
        /\ LastLabels(hybrid, 2) = <<Len(Program), Len(Program) + 5>>

\* C1 amended: with rpc_call_points = [0, L, L+5] the merged sequence holds
\* exactly 3 calls; for L >= 1 one stands immediately before action 0 and two
\* trail in the order of their points; for L = 0 there is no action 0 and all
\* three trail, in the order of their points
C1_Amended ==
    (Built /\ CallPoints = <<0, Len(Program), Len(Program) + 5>>) =>
        /\ Cardinality(RpcPositions(hybrid)) = 3
        /\ Len(Program) >= 1 =>
            /\ Cardinality(CallsBefore(hybrid, 0)) = 1
            /\ Cardinality(TrailingCalls(hybrid)) = 2
            /\ LastLabels(hybrid, 2) = <<Len(Program), Len(Program) + 5>>
        /\ Len(Program) = 0 =>
            /\ Cardinality(TrailingCalls(hybrid)) = 3
            /\ LastLabels(hybrid, 3) = <<0, 0, 5>>

C1_Witness ==
    /\ Built
    /\ Len(Program) >= 1
    /\ CallPoints = <<0, Len(Program), Len(Program) + 5>>

\* C2 as stated: one call per insertion point, duplicates included: the calls
\* immediately before action i are as many as the occurrences of i in
\* rpc_call_points, and the trailing calls as many as the points at or beyond
\* the program's length
C2_Claim ==
    Built =>
        /\ \A i \in 0..(Len(Program) - 1) :
              Cardinality(CallsBefore(hybrid, i)) = Count(CallPoints, i)
        /\ Cardinality(TrailingCalls(hybrid)) =
              Cardinality({k \in 1..Len(CallPoints) : CallPoints[k] >= Len(Program)})

\* C3: the input [2, 5, 100, <4 encoded actions>] decodes to rpc_call_points =
\* [5, 100] and its 4 actions, and the merged sequence is the 4 actions in
\* order followed by the call for point 5 and then the call for point 100
C3_EndToEnd ==
    (pc # "decode" /\ Len(bytes) >= 3 /\ SubSeq(bytes, 1, 3) = <<2, 5, 100>>) =>
        /\ decoded.ok => CallPoints = <<5, 100>>
        /\ \A p \in Programs :
              (Len(p) = 4 /\ SubSeq(bytes, 4, Len(bytes)) = Encode(p)
                          /\ ~build.compile_in_vm) =>
                 (decoded.ok /\ Program = p)
        /\ (Built /\ Len(Program) = 4) =>
              hybrid = <<P2P(Program[1]), P2P(Program[2]), P2P(Program[3]),
                         P2P(Program[4]), RpcGetMempoolInfo(5),
                         RpcGetMempoolInfo(100)>>

C3_Witness ==
    /\ Built
    /\ bytes = <<2, 5, 100>> \o Encode(E2EProgram)
    /\ Len(Program) = 4
    /\ Len(hybrid) = 6

\* C4: when decode succeeds, rpc_call_points has bytes[0] mod 10 entries,
\* entry i is the raw byte bytes[1+i], and the program is the one serialized
\* in the bytes from offset 1 + (bytes[0] mod 10) to the end
C4_DecodeLayout ==
    (pc # "decode" /\ decoded.ok) =>
        LET n == bytes[1] % 10
            segment == SubSeq(bytes, n + 2, Len(bytes))
        IN  /\ Len(bytes) >= n + 2
            /\ Len(CallPoints) = n
            /\ \A i \in 0..(n - 1) : At0(CallPoints, i) = At0(bytes, 1 + i)
            /\ from_bytes(segment).ok
            /\ Program = IF build.compile_in_vm
                         THEN compile(from_bytes(segment).actions).actions
                         ELSE from_bytes(segment).actions

C4_Witness ==
    /\ pc = "run"
    /\ decoded.ok
    /\ bytes[1] = 11
    /\ CallPoints = <<100>>
    /\ Len(Program) = 2

\* the bytes left for the program when the buffer b is not empty
TrailingSegment(b) ==
    IF Len(b) >= (b[1] % 10) + 1 THEN SubSeq(b, (b[1] % 10) + 2, Len(b)) ELSE <<>>

\* the input is one that decode has to reject
Malformed ==
    \/ bytes = <<>>
    \/ ~from_bytes(TrailingSegment(bytes)).ok
    \/ build.compile_in_vm /\ ~compile(from_bytes(TrailingSegment(bytes)).actions).ok

\* C5: an empty buffer, a trailing segment that does not deserialize or (with
\* compilation at decode time) does not compile gives an error string and no
\* TestCase, and nothing of a rejected input is executed
C5_Rejected ==
    /\ (pc # "decode" /\ Malformed) => ~decoded.ok
    /\ (pc # "decode" /\ ~decoded.ok) =>
          /\ Malformed
          /\ decoded.err # ""
          /\ decoded.testcase = NoTestCase
          /\ pc = "rejected"
          /\ hybrid = <<>> /\ trace = <<>> /\ result = NoResult

C5_Witness ==
    /\ pc = "rejected"
    /\ bytes = <<2, 0>>
    /\ decoded.err = "deserialize"

----------------------------------------------------------------------------
(* Properties of the oracles                                               *)

\* the oracles the build evaluates, in the order of evaluate_oracles
EnabledOracles ==
    <<"crash">>
    \o (IF build.oracle_netsplit THEN <<"netsplit">> ELSE <<>>)
    \o (IF build.oracle_consensus THEN <<"consensus">> ELSE <<>>)

IsEvaluate(c) == c.call = "evaluate"

\* the oracle evaluations made, in order
Evaluated == SelectSeq(trace, IsEvaluate)

\* C10: the oracles are evaluated in the order crash, network partition,
\* consensus (the enabled ones); the result is Fail with the diagnostic of the
\* first that fails, none is evaluated after a failure, and the result is Ok
\* exactly when every enabled oracle passes
C10_OracleOrder ==
    pc = "done" =>
        LET ev == Evaluated
            n == Len(ev)
        IN  /\ n >= 1 /\ n <= Len(EnabledOracles)
            /\ \A k \in 1..n : ev[k].target = EnabledOracles[k]
            /\ \A k \in 1..(n - 1) : ev[k].n = 0
            /\ ev[n].n = 1 => result = Fail(ev[n].target)
            /\ ev[n].n = 0 => (result = OkResult /\ n = Len(EnabledOracles))
            /\ result.kind \in {"Ok", "Fail"}

C10_Witness ==
    /\ pc = "done"
    /\ build.oracle_netsplit /\ build.oracle_consensus
    /\ result = Fail("netsplit")
    /\ Len(Evaluated) = 2

----------------------------------------------------------------------------
(* Properties of the run                                                   *)

\* process_hybrid_actions and ping_connections have returned
Processed == pc \in {"oracles", "done"}

IsSend(c) == c.call \in {"send", "send_and_ping"}

IsPing(c) == c.call = "ping"

\* a call made by process_hybrid_actions
IsProcessCall(c) == c.call \in {"send", "send_and_ping", "set_mocktime", "call_rpc"}

\* a call made by evaluate_oracles
IsOracleCall(c) == c.call \in {"evaluate", "connect_to"}

\* the run's result as the oracle evaluations in the trace tell it
ResultOfOracles ==
    LET ev == Evaluated
    IN  IF ev # <<>> /\ ev[Len(ev)].n = 1 THEN Fail(ev[Len(ev)].target)
        ELSE OkResult

\* what an entry of the merged sequence is to do on the primary side:
\* nothing, a send, a time update or a control-plane call
RECURSIVE ExpectedKinds(_)
ExpectedKinds(h) ==
    IF h = <<>> THEN <<>>
    ELSE (CASE IsRpc(Head(h)) -> <<"call_rpc">>
            [] Head(h).action.op = "SetTime" -> <<"set_mocktime">>
            [] Head(h).action.op = "SendRawMessage" /\ connections > 0 -> <<"send">>
            [] OTHER -> <<>>)
         \o ExpectedKinds(Tail(h))

\* what was done on the primary side, in order
RECURSIVE DoneKinds(_)
DoneKinds(t) ==
    IF t = <<>> THEN <<>>
    ELSE (CASE IsSend(Head(t)) -> <<"send">>
            [] IsProcessCall(Head(t)) /\ Head(t).target = "primary" -> <<Head(t).call>>
            [] OTHER -> <<>>)
         \o DoneKinds(Tail(t))

\* the operands of the actions of kind op among as, in order
RECURSIVE ArgsOf(_, _)
ArgsOf(as, op) ==
    IF as = <<>> THEN <<>>
    ELSE (IF Head(as).op = op THEN <<Head(as).arg>> ELSE <<>>) \o ArgsOf(Tail(as), op)

\* the operands of the calls of the trace that satisfy Test, in order
Operands(Test(_)) ==
    LET sel == SelectSeq(trace, Test) IN [k \in 1..Len(sel) |-> sel[k].n]

\* C11: every live connection is pinged exactly once, after the last entry
\* of the merged sequence was executed and before any oracle is evaluated,
\* whatever the earlier calls returned
C11_PingPlacement ==
    /\ \A i \in 1..Len(trace) :
          IsPing(trace[i]) =>
             /\ Processed /\ ip = Len(hybrid)
             /\ \A j \in 1..Len(trace) :
                   /\ IsProcessCall(trace[j]) => j < i
                   /\ IsOracleCall(trace[j]) => j > i
    /\ Processed => Operands(IsPing) = [c \in 1..connections |-> c - 1]
    /\ (\E j \in 1..Len(trace) : IsOracleCall(trace[j])) => pc = "done"

C11_Witness ==
    /\ pc = "done"
    /\ connections = 2
    /\ dispatchFailed
    /\ Len(SelectSeq(trace, IsPing)) = 2
    /\ Len(Evaluated) = 3

\* C12: a send that returns an error neither aborts the run nor becomes its
\* result: every later entry is executed in order, the connections are
\* pinged, the oracles evaluated, and the result is the oracles' alone
C12_FailureSwallowed ==
    /\ (dispatchFailed /\ pc = "process") => (result = NoResult /\ ip <= Len(hybrid))
    /\ (dispatchFailed /\ Processed) =>
          /\ ip = Len(hybrid)
          /\ DoneKinds(trace) = ExpectedKinds(hybrid)
          /\ Len(SelectSeq(trace, IsPing)) = connections
    /\ (dispatchFailed /\ pc = "done") =>
          /\ Evaluated # <<>>
          /\ result = ResultOfOracles

C12_Witness ==
    /\ pc = "done"
    /\ dispatchFailed
    /\ result = OkResult
    /\ Len(SelectSeq(trace, IsSend)) = 3
    /\ Len(hybrid) >= 4

\* the sends of the first n entries of the merged sequence, as connection
\* indices: each SendRawMessage(from, ..) on connection from mod the count
SendsDue(n) ==
    LET froms == ArgsOf(ActionsOf(SubSeq(hybrid, 1, n)), "SendRawMessage")
    IN  [k \in 1..Len(froms) |-> froms[k] % connections]

\* C13: with n >= 1 live connections every SendRawMessage(from, ..) is sent
\* exactly once, on connection from mod n, whatever from is; with no
\* connection it is skipped without a send and the run goes on
C13_ModuloDispatch ==
    Built =>
        /\ connections >= 1 => Operands(IsSend) = SendsDue(ip)
        /\ connections = 0 => SelectSeq(trace, IsSend) = <<>>
        /\ \A i \in 1..Len(trace) : IsSend(trace[i]) => trace[i].n < connections
        /\ Processed => ip = Len(hybrid)

C13_Witness ==
    /\ Processed
    /\ connections = 2
    /\ Program = WrapProgram
    /\ Operands(IsSend) = <<0, 1, 1>>

C13_WitnessNoConnection ==
    /\ Processed
    /\ connections = 0
    /\ Program = WrapProgram

IsSetTimeOn(target, c) == c.call = "set_mocktime" /\ c.target = target

IsSetTimePrimary(c) == IsSetTimeOn("primary", c)

IsSetTimeSecond(c) == IsSetTimeOn("second", c)

\* C15: with a reference target every SetTime(t) is applied to the primary and
\* to the reference target, in sequence order, so both were last commanded to
\* the same time; the control-plane calls and the sends go to the primary only
C15_BothClocks ==
    /\ HasSecond(build) =>
          /\ Operands(IsSetTimePrimary) = Operands(IsSetTimeSecond)
          /\ Built => Operands(IsSetTimeSecond)
                        = ArgsOf(ActionsOf(SubSeq(hybrid, 1, ip)), "SetTime")
    /\ \A i \in 1..Len(trace) :
          /\ trace[i].call = "call_rpc" => trace[i].target = "primary"
          /\ IsSend(trace[i]) => trace[i].target = "connection"
          /\ (trace[i].target = "second" /\ IsProcessCall(trace[i])) =>
                /\ trace[i].call = "set_mocktime"
                /\ i > 1 /\ trace[i - 1] = Call("set_mocktime", "primary", trace[i].n)

C15_Witness ==
    /\ pc = "done"
    /\ HasSecond(build)
    /\ Operands(IsSetTimeSecond) = <<7, 9>>
    /\ \E i \in 1..Len(trace) : trace[i].call = "call_rpc"

\* the calls of h labelled with point p
CallsFor(h, p) == {j \in RpcPositions(h) : h[j].at = p}

C19_InOrder ==
    Built =>
        /\ ActionsOf(hybrid) = Program
        /\ ip \in 0..Len(hybrid)
        /\ Processed => ip = Len(hybrid)
        /\ DoneKinds(trace) = ExpectedKinds(SubSeq(hybrid, 1, ip))

C19_Witness ==
    /\ pc = "process"
    /\ ip = 3
    /\ Len(hybrid) = 4
    /\ CallPoints = <<0, 1>>
    /\ Len(DoneKinds(trace)) = 3

----------------------------------------------------------------------------
(* Termination of the run                                                  *)

\* run is sequential code: as long as a step is left, one is taken
FairSpec == Init /\ [][Next]_vars /\ WF_vars(Next)

\* C20: every collaborator call returning, the run of a decoded TestCase ends
\* with a ScenarioResult; when it has, every entry was processed, every
\* connection pinged once and at most three oracles were evaluated
C20_Terminates ==
    /\ (pc = "run") ~> (pc = "done" /\ result.kind \in {"Ok", "Fail"})
    /\ [](pc = "done" =>
            /\ ip = Len(hybrid)
            /\ Len(hybrid) <= Len(Program) + Len(CallPoints)
            /\ Len(SelectSeq(trace, IsPing)) = connections
            /\ Len(Evaluated) \in 1..3)

C20_Witness ==
    /\ pc = "done"
    /\ result = OkResult
    /\ Len(hybrid) = 6
    /\ connections = 2
    /\ Len(Evaluated) = 3

----------------------------------------------------------------------------
(* The generators: runs on one builder                                     *)

GenInit ==
    /\ builder \in InitialBuilders
    /\ meta \in Metas
    /\ gres = "None"
    /\ gname = "None"
    /\ gpre = builder
    /\ gruns = 0
    /\ chosen = None
    /\ SchedIdle
    /\ SyncIdle

\* a panic ends the construction
CanRun == gres # "Panic" /\ gruns < MaxRuns

GetTemplateGenerate ==
    /\ CanRun
    /\ \E o \in GetTemplateGenerator_generate(builder) :
         /\ builder' = o.builder
         /\ gres' = o.res
    /\ gname' = "GetTemplateGenerator"
    /\ gpre' = builder
    /\ gruns' = gruns + 1
    /\ UNCHANGED <<meta, chosen>>
    /\ UNCHANGED <<schedVars, syncVars>>

TemplateGenerate ==
    /\ CanRun
    /\ \E o \in TemplateGenerator_generate(builder, meta) :
         /\ builder' = o.builder
         /\ gres' = o.res
    /\ gname' = "TemplateGenerator"
    /\ gpre' = builder
    /\ gruns' = gruns + 1
    /\ UNCHANGED <<meta, chosen>>
    /\ UNCHANGED <<schedVars, syncVars>>

\* choose_index on the program built so far; it reads, and changes nothing
ChooseIndex ==
    /\ CanRun
    /\ chosen' \in choose_index(builder.instructions, meta)
    /\ gname' = "choose_index"
    /\ gpre' = builder
    /\ UNCHANGED <<builder, meta, gres, gruns>>
    /\ UNCHANGED <<schedVars, syncVars>>

GenNext ==
    \/ GetTemplateGenerate
    \/ TemplateGenerate
    \/ ChooseIndex

GenSpec == GenInit /\ [][GenNext]_vars

----------------------------------------------------------------------------
(* Properties of the generators                                            *)

Requested == meta.template_request

RanTemplate == gname = "TemplateGenerator"

RanGetTemplate == gname = "GetTemplateGenerator"

NoneMatches ==
    \A c \in 1..Len(Requested) :
        Requested[c].triggering_instruction_index # Len(gpre.instructions) - 1

\* C7 as stated: with no metadata, an empty template-request list or requests
\* none of which matches the insertion point, generate returns success and
\* leaves the instruction count unchanged
C7_Original ==
    (RanTemplate /\ (~meta.some \/ Requested = <<>> \/ NoneMatches)) =>
        /\ gres = "Ok"
        /\ Len(builder.instructions) = Len(gpre.instructions)

\* C7 amended: with no metadata or an empty template-request list generate
\* returns success and leaves the program unchanged; with requests none of
\* which matches the insertion point it panics, the program unchanged
C7_Amended ==
    /\ (RanTemplate /\ (~meta.some \/ Requested = <<>>)) =>
          (gres = "Ok" /\ builder = gpre)
    /\ (RanTemplate /\ meta.some /\ Requested # <<>> /\ NoneMatches) =>
          (gres = "Panic" /\ builder = gpre)

C7_Witness ==
    /\ RanTemplate
    /\ meta.some /\ Len(Requested) = 2 /\ NoneMatches
    /\ Len(gpre.instructions) = 2
    /\ At0(gpre.instructions, 1).operation = "SendGetTemplate"
    /\ gres = "Panic"

\* C8: with num_connections = 0 GetTemplateGenerator returns InvalidContext
\* and leaves the program unchanged; with num_connections > 0 it succeeds and
\* the last instruction is a SendGetTemplate on one connection variable
C8_ContextGuard ==
    RanGetTemplate =>
        /\ gpre.num_connections = 0 => (gres = "InvalidContext" /\ builder = gpre)
        /\ gpre.num_connections > 0 =>
              LET last == builder.instructions[Len(builder.instructions)]
              IN  /\ gres = "Ok"
                  /\ Len(builder.instructions) > Len(gpre.instructions)
                  /\ last.operation = "SendGetTemplate"
                  /\ Len(last.inputs) = 1
                  /\ last.inputs[1] \in ConnectionVariables(builder)

C8_Witness ==
    /\ RanGetTemplate
    /\ gpre.num_connections = 0
    /\ gpre.instructions # <<>>
    /\ gres = "InvalidContext"

\* every input of every instruction of b is a variable produced by an
\* earlier instruction
CausalOrder(b) ==
    \A p \in 0..(Len(b.instructions) - 1) :
        \A k \in 1..Len(At0(b.instructions, p).inputs) :
            LET v == At0(b.instructions, p).inputs[k]
            IN  /\ v < Len(b.variables)
                /\ At0(b.variables, v).by < p
                /\ v < p

\* C9: after any sequence of successful generator runs every input refers to
\* a variable produced strictly earlier, the connection index of a
\* SendTemplate included
C9_CausalOrder == gres # "Panic" => CausalOrder(builder)

C9_Witness ==
    /\ RanTemplate /\ gres = "Ok" /\ gruns = 2
    /\ Len(builder.instructions) > Len(gpre.instructions)
    /\ builder.instructions[Len(builder.instructions)].inputs[1] = 1

\* the instruction before the insertion point of the last run is missing or
\* is not a SendGetTemplate
NoGetTemplateBefore ==
    \/ gpre.instructions = <<>>
    \/ gpre.instructions[Len(gpre.instructions)].operation # "SendGetTemplate"

\* C17: with a non-empty template-request list and no SendGetTemplate right
\* before the insertion point (the empty program included), generate panics
\* and the program is as it was: nothing was appended
C17_AbortsOnMismatch ==
    (RanTemplate /\ meta.some /\ Requested # <<>> /\ NoGetTemplateBefore) =>
        /\ gres = "Panic"
        /\ builder = gpre

C17_Witness ==
    /\ RanTemplate
    /\ meta.some /\ Requested # <<>> /\ ~NoneMatches
    /\ Len(gpre.instructions) = 2
    /\ gpre.instructions[2].operation = "LoadBytes"
    /\ gres = "Panic"
    /\ builder = gpre

ChoseIndex == gname = "choose_index"

BlockTxnRequested == meta.block_txn_request

\* C16 as stated: with request events in the metadata choose_index returns
\* k+1 for an event whose triggering index k lies in the program, hence a
\* position that is at most the instruction count
C16_Claim ==
    (ChoseIndex /\ meta.some /\ BlockTxnRequested # <<>>) =>
        /\ chosen.some
        /\ \E c \in 1..Len(BlockTxnRequested) :
              /\ chosen.index = BlockTxnRequested[c].triggering_instruction_index + 1
              /\ BlockTxnRequested[c].triggering_instruction_index
                    < Len(gpre.instructions)
        /\ chosen.index <= Len(gpre.instructions)

----------------------------------------------------------------------------
(* Construction of the scenario: IrScenario::new and sync_nodes            *)

SyncInit ==
    /\ pc = "idle"
    /\ build \in Builds
    /\ connections = 0
    /\ bytes = <<>>
    /\ decoded = Err("")
    /\ hybrid = <<>>
    /\ ip = 0
    /\ trace = <<>>
    /\ swallowed = FALSE
    /\ dispatchFailed = FALSE
    /\ result = NoResult
    /\ GenIdle
    /\ spc = "new"
    /\ clock = 0
    /\ checkedAt = 0
    /\ polledAt = 0
    /\ primary_tip = NoTip
    /\ reference_tip = NoTip
    /\ synced = FALSE
    /\ matched = FALSE
    /\ failedStep = "none"
    /\ sres = Pending
    /\ constructed = Pending

\* new returns the error e of the call named step
Abort(step, e) ==
    /\ failedStep' = step
    /\ constructed' = Failure(e)
    /\ spc' = "done"

\* new up to the second target: GenericScenario::new and dump_context may
\* fail; without a dual-target oracle the scenario is complete
NewScenario ==
    /\ spc = "new"
    /\ \E ok \in BOOLEAN :
         IF ~ok THEN Abort("inner", "inner")
         ELSE IF HasSecond(build)
              THEN /\ spc' = "from_path"
                   /\ UNCHANGED <<failedStep, constructed>>
              ELSE /\ spc' = "done"
                   /\ constructed' = Success
                   /\ UNCHANGED failedStep
    /\ UNCHANGED <<clock, checkedAt, polledAt, primary_tip, reference_tip,
                   synced, matched, sres>>
    /\ UNCHANGED <<schedVars, genVars>>

FromPath ==
    /\ spc = "from_path"
    /\ \E ok \in BOOLEAN :
         IF ~ok THEN Abort("from_path", "from_path")
         ELSE /\ spc' = "connect_to"
              /\ UNCHANGED <<failedStep, constructed>>
    /\ UNCHANGED <<clock, checkedAt, polledAt, primary_tip, reference_tip,
                   synced, matched, sres>>
    /\ UNCHANGED <<schedVars, genVars>>

ConnectTo ==
    /\ spc = "connect_to"
    /\ \E ok \in BOOLEAN :
         IF ~ok THEN Abort("connect_to", "connect_to")
         ELSE /\ spc' = "start"
              /\ UNCHANGED <<failedStep, constructed>>
    /\ UNCHANGED <<clock, checkedAt, polledAt, primary_tip, reference_tip,
                   synced, matched, sres>>
    /\ UNCHANGED <<schedVars, genVars>>

\* let start = Instant::now(); let mut synced = false;
SyncStart ==
    /\ spc = "start"
    /\ clock' = 0
    /\ synced' = FALSE
    /\ spc' = "check"
    /\ UNCHANGED <<checkedAt, polledAt, primary_tip, reference_tip, matched,
                   failedStep, sres, constructed>>
    /\ UNCHANGED <<schedVars, genVars>>

\* the loop condition without the timeout
LoopHead_NoTimeout ==
    /\ spc = "check"
    /\ checkedAt' = clock
    /\ spc' = "poll_primary"
    /\ UNCHANGED <<clock, polledAt, primary_tip, reference_tip, synced,
                   matched, failedStep, sres, constructed>>
    /\ UNCHANGED <<schedVars, genVars>>

\* while start.elapsed() < SYNC_TIMEOUT
LoopHead ==
    /\ spc = "check"
    /\ checkedAt' = clock
    /\ spc' = IF clock < SYNC_TIMEOUT THEN "poll_primary" ELSE "exit"
    /\ UNCHANGED <<clock, polledAt, primary_tip, reference_tip, synced,
                   matched, failedStep, sres, constructed>>
    /\ UNCHANGED <<schedVars, genVars>>

\* let primary_tip = primary.get_tip_hash();
PollPrimary ==
    /\ spc = "poll_primary"
    /\ primary_tip' \in Tips
    /\ polledAt' = clock
    /\ spc' = "poll_reference"
    /\ UNCHANGED <<clock, checkedAt, reference_tip, synced, matched,
                   failedStep, sres, constructed>>
    /\ UNCHANGED <<schedVars, genVars>>

\* let reference_tip = reference.get_tip_hash();
PollReference ==
    /\ spc = "poll_reference"
    /\ reference_tip' \in Tips
    /\ polledAt' = clock
    /\ matched' = (matched \/ (primary_tip # NoTip /\ primary_tip = reference_tip'))
    /\ spc' = "compare"
    /\ UNCHANGED <<clock, checkedAt, primary_tip, synced, failedStep, sres,
                   constructed>>
    /\ UNCHANGED <<schedVars, genVars>>

\* if primary_tip.is_some() && primary_tip == reference_tip { .. break; }
Compare ==
    /\ spc = "compare"
    /\ IF primary_tip # NoTip /\ primary_tip = reference_tip
       THEN synced' = TRUE /\ spc' = "exit"
       ELSE synced' = synced /\ spc' = "sleep"
    /\ UNCHANGED <<clock, checkedAt, polledAt, primary_tip, reference_tip,
                   matched, failedStep, sres, constructed>>
    /\ UNCHANGED <<schedVars, genVars>>

\* std::thread::sleep(POLL_INTERVAL): the clock may reach the next second
Sleep ==
    /\ spc = "sleep"
    /\ clock' \in {clock, Min(clock + 1, MaxClock)}
    /\ spc' = "check"
    /\ UNCHANGED <<checkedAt, polledAt, primary_tip, reference_tip, synced,
                   matched, failedStep, sres, constructed>>
    /\ UNCHANGED <<schedVars, genVars>>

\* time passes between any two steps of the loop
Tick ==
    /\ spc \in {"check", "poll_primary", "poll_reference", "compare"}
    /\ clock < MaxClock
    /\ clock' = clock + 1
    /\ UNCHANGED <<spc, checkedAt, polledAt, primary_tip, reference_tip,
                   synced, matched, failedStep, sres, constructed>>
    /\ UNCHANGED <<schedVars, genVars>>

\* if !synced { return Err("nodes failed to sync") } Ok(())
SyncReturn ==
    /\ spc = "exit"
    /\ sres' = IF synced THEN Success ELSE Failure("nodes failed to sync")
    /\ spc' = "returned"
    /\ UNCHANGED <<clock, checkedAt, polledAt, primary_tip, reference_tip,
                   synced, matched, failedStep, constructed>>
    /\ UNCHANGED <<schedVars, genVars>>

\* Self::sync_nodes(..)?; Ok(second), and new's Ok(Self { inner, second })
CreateReturn ==
    /\ spc = "returned"
    /\ IF sres.kind = "Err" THEN Abort("sync_nodes", sres.err)
       ELSE /\ spc' = "done"
            /\ constructed' = Success
            /\ UNCHANGED failedStep
    /\ UNCHANGED <<clock, checkedAt, polledAt, primary_tip, reference_tip,
                   synced, matched, sres>>
    /\ UNCHANGED <<schedVars, genVars>>

SyncNext ==
    \/ NewScenario
    \/ FromPath
    \/ ConnectTo
    \/ SyncStart
    \/ LoopHead
    \/ PollPrimary
    \/ PollReference
    \/ Compare
    \/ Sleep
    \/ Tick
    \/ SyncReturn
    \/ CreateReturn

SyncSpec == SyncInit /\ [][SyncNext]_vars

----------------------------------------------------------------------------
(* Properties of the construction                                          *)

\* inside an iteration of the polling loop
InIteration == spc \in {"poll_primary", "poll_reference", "compare", "sleep"}

TipsMatch == primary_tip # NoTip /\ primary_tip = reference_tip

\* what C14 says of the results: sync_nodes returns success as soon as the
\* tips of one iteration match, the error "nodes failed to sync" exactly when
\* none did before the loop ended, and new fails when a step of the second
\* target failed
SyncResults ==
    /\ matched => (TipsMatch /\ spc \in {"compare", "exit", "returned", "done"})
    /\ spc \in {"returned", "done"} /\ sres # Pending =>
          /\ sres = Success <=> matched
          /\ sres = Failure("nodes failed to sync") <=> ~matched
          /\ ~matched => checkedAt >= SYNC_TIMEOUT
    /\ spc = "done" =>
          /\ constructed = Success <=> failedStep = "none"
          /\ failedStep = "sync_nodes" <=> sres.kind = "Err"
          /\ sres.kind = "Err" => constructed = Failure("nodes failed to sync")
          /\ failedStep \in {"from_path", "connect_to"} =>
                (constructed.kind = "Err" /\ sres = Pending)
          /\ constructed = Success /\ HasSecond(build) => sres = Success
          /\ ~HasSecond(build) => sres = Pending

\* C14 as stated: the results, and no get_tip_hash is called once the
\* timeout has elapsed
C14_Original ==
    /\ SyncResults
    /\ polledAt < SYNC_TIMEOUT

\* C14 amended: the results, and no iteration begins once the timeout has
\* elapsed: the loop condition read less than SYNC_TIMEOUT before every pair
\* of get_tip_hash calls. The calls themselves may be made later, and a match
\* they observe then still is a success
C14_Amended ==
    /\ SyncResults
    /\ InIteration => checkedAt < SYNC_TIMEOUT

C14_Witness ==
    /\ spc = "done"
    /\ constructed = Success
    /\ sres = Success
    /\ checkedAt < SYNC_TIMEOUT
    /\ polledAt >= SYNC_TIMEOUT

====
